---- MODULE Spec2Model ----
(***************************************************************************)
(* AVRA device registry (src/src/device.c): the device table, get_device,  *)
(* def_dev and predef_dev, with the symbol table of the assembler session  *)
(* (struct prog_info) they read and write.                                 *)
(*                                                                         *)
(* C strings are sequences of ASCII codes (1..127), so that case folding   *)
(* and the strncpy/strncat arithmetic are computed, not assumed.  A C      *)
(* array index i is the TLA+ index i+1 (see At).  The capability flags of  *)
(* a descriptor are not read by any function of device.c except            *)
(* list_devices and are left out of the records.                           *)
(***************************************************************************)
EXTENDS Integers, Sequences, FiniteSets, TLC

\* ------------------------------------------------------------------ bounds
\* longest synthetic device name fed to the symbol-name builder
MaxNameLen == 34
\* a user symbol present before pass 1 may collide with entries 0..MaxUserIdx
MaxUserIdx == 2
\* values a user symbol present before pass 1 may have: 0..MaxUserVal
MaxUserVal == 1
\* number of predef_dev runs followed in one behaviour
MaxRuns == 2

\* --------------------------------------------------------------- constants
True == TRUE
False == FALSE

\* the null char pointer: a value that is no C string (codes are positive)
NULL == << -1 >>
\* the null struct device pointer; a non-null one is the index it points at
NODEV == -1

PASS_1 == "PASS_1"
PASS_2 == "PASS_2"

DEV_VAR == <<95,95,68,69,86,73,67,69,95,95>>  \* "__DEVICE__"
FLASH_VAR == <<95,95,70,76,65,83,72,95,83,73,90,69,95,95>>  \* "__FLASH_SIZE__"
EEPROM_VAR == <<95,95,69,69,80,82,79,77,95,83,73,90,69,95,95>>  \* "__EEPROM_SIZE__"
RAM_VAR == <<95,95,82,65,77,95,83,73,90,69,95,95>>  \* "__RAM_SIZE__"
DEV_PREFIX == <<95,95>>  \* "__"
DEV_SUFFIX == <<95,95>>  \* "__"
DEF_DEV_NAME == <<68,69,70,65,85,76,84>>  \* "DEFAULT"
MAX_DEV_NAME == 32

\* one initializer of device_list: name, flash size (words), RAM start,
\* RAM size (bytes), EEPROM size (bytes)
Dev(n, f, rs, r, e) ==
    [name |-> n, flash_size |-> f, ram_start |-> rs, ram_size |-> r, eeprom_size |-> e]

\* struct device device_list[] as initialized
DeviceTable ==
  <<
    Dev(NULL, 4194304, 96, 8388608, 65536),  \* NULL
    Dev(<<65,84,116,105,110,121,52>>, 256, 64, 32, 0),  \* ATtiny4
    Dev(<<65,84,116,105,110,121,53>>, 256, 64, 32, 0),  \* ATtiny5
    Dev(<<65,84,116,105,110,121,57>>, 512, 64, 32, 0),  \* ATtiny9
    Dev(<<65,84,116,105,110,121,49,48>>, 512, 64, 32, 0),  \* ATtiny10
    Dev(<<65,84,116,105,110,121,49,49>>, 512, 0, 0, 0),  \* ATtiny11
    Dev(<<65,84,116,105,110,121,49,50>>, 512, 0, 0, 64),  \* ATtiny12
    Dev(<<65,84,116,105,110,121,49,51>>, 512, 96, 64, 64),  \* ATtiny13
    Dev(<<65,84,116,105,110,121,49,51,65>>, 512, 96, 64, 64),  \* ATtiny13A
    Dev(<<65,84,116,105,110,121,49,53>>, 512, 0, 0, 64),  \* ATtiny15
    Dev(<<65,84,116,105,110,121,50,48>>, 1024, 64, 128, 0),  \* ATtiny20
    Dev(<<65,84,116,105,110,121,50,50>>, 1024, 96, 128, 128),  \* ATtiny22
    Dev(<<65,84,116,105,110,121,50,52>>, 1024, 96, 128, 128),  \* ATtiny24
    Dev(<<65,84,116,105,110,121,50,52,65>>, 1024, 96, 128, 128),  \* ATtiny24A
    Dev(<<65,84,116,105,110,121,50,53>>, 1024, 96, 128, 128),  \* ATtiny25
    Dev(<<65,84,116,105,110,121,50,54>>, 1024, 96, 128, 128),  \* ATtiny26
    Dev(<<65,84,116,105,110,121,50,56>>, 1024, 0, 0, 0),  \* ATtiny28
    Dev(<<65,84,116,105,110,121,52,52>>, 2048, 96, 256, 256),  \* ATtiny44
    Dev(<<65,84,116,105,110,121,52,52,65>>, 2048, 96, 256, 256),  \* ATtiny44A
    Dev(<<65,84,116,105,110,121,52,53>>, 2048, 96, 256, 256),  \* ATtiny45
    Dev(<<65,84,116,105,110,121,52,56>>, 2048, 256, 256, 64),  \* ATtiny48
    Dev(<<65,84,116,105,110,121,56,52>>, 4096, 96, 512, 512),  \* ATtiny84
    Dev(<<65,84,116,105,110,121,56,53>>, 4096, 96, 512, 512),  \* ATtiny85
    Dev(<<65,84,116,105,110,121,56,56>>, 4096, 256, 512, 64),  \* ATtiny88
    Dev(<<65,84,116,105,110,121,50,54,49,65>>, 1024, 96, 128, 128),  \* ATtiny261A
    Dev(<<65,84,116,105,110,121,52,54,49,65>>, 2048, 96, 256, 256),  \* ATtiny461A
    Dev(<<65,84,116,105,110,121,56,54,49,65>>, 4096, 96, 512, 512),  \* ATtiny861A
    Dev(<<65,84,116,105,110,121,50,51,49,51>>, 1024, 96, 128, 128),  \* ATtiny2313
    Dev(<<65,84,116,105,110,121,50,51,49,51,65>>, 1024, 96, 128, 128),  \* ATtiny2313A
    Dev(<<65,84,116,105,110,121,52,51,49,51>>, 2048, 96, 256, 256),  \* ATtiny4313
    Dev(<<65,84,57,48,83,49,50,48,48>>, 512, 0, 0, 64),  \* AT90S1200
    Dev(<<65,84,57,48,83,50,51,49,51>>, 1024, 96, 128, 128),  \* AT90S2313
    Dev(<<65,84,57,48,83,50,51,50,51>>, 1024, 96, 128, 128),  \* AT90S2323
    Dev(<<65,84,57,48,83,50,51,51,51>>, 1024, 96, 128, 128),  \* AT90S2333
    Dev(<<65,84,57,48,83,50,51,52,51>>, 1024, 96, 128, 128),  \* AT90S2343
    Dev(<<65,84,57,48,83,52,52,49,52>>, 2048, 96, 256, 256),  \* AT90S4414
    Dev(<<65,84,57,48,83,52,52,51,51>>, 2048, 96, 128, 256),  \* AT90S4433
    Dev(<<65,84,57,48,83,52,52,51,52>>, 2048, 96, 256, 256),  \* AT90S4434
    Dev(<<65,84,57,48,83,56,53,49,53>>, 4096, 96, 512, 512),  \* AT90S8515
    Dev(<<65,84,57,48,67,56,53,51,52>>, 4096, 96, 256, 512),  \* AT90C8534
    Dev(<<65,84,57,48,83,56,53,51,53>>, 4096, 96, 512, 512),  \* AT90S8535
    Dev(<<65,84,109,101,103,97,56>>, 4096, 96, 1024, 512),  \* ATmega8
    Dev(<<65,84,109,101,103,97,56,65>>, 4096, 96, 1024, 512),  \* ATmega8A
    Dev(<<65,84,109,101,103,97,49,54,49>>, 8192, 96, 1024, 512),  \* ATmega161
    Dev(<<65,84,109,101,103,97,49,54,50>>, 8192, 256, 1024, 512),  \* ATmega162
    Dev(<<65,84,109,101,103,97,49,54,51>>, 8192, 96, 1024, 512),  \* ATmega163
    Dev(<<65,84,109,101,103,97,49,54>>, 8192, 96, 1024, 512),  \* ATmega16
    Dev(<<65,84,109,101,103,97,51,50,51>>, 16384, 96, 2048, 1024),  \* ATmega323
    Dev(<<65,84,109,101,103,97,51,50>>, 16384, 96, 2048, 1024),  \* ATmega32
    Dev(<<65,84,109,101,103,97,54,48,51>>, 32768, 96, 4096, 2048),  \* ATmega603
    Dev(<<65,84,109,101,103,97,49,48,51>>, 65536, 96, 4096, 4096),  \* ATmega103
    Dev(<<65,84,109,101,103,97,49,48,52>>, 65536, 96, 4096, 4096),  \* ATmega104
    Dev(<<65,84,109,101,103,97,49,50,56>>, 65536, 256, 4096, 4096),  \* ATmega128
    Dev(<<65,84,109,101,103,97,49,50,56,65>>, 65536, 256, 4096, 4096),  \* ATmega128A
    Dev(<<65,84,109,101,103,97,52,56>>, 2048, 256, 512, 256),  \* ATmega48
    Dev(<<65,84,109,101,103,97,52,56,65>>, 2048, 256, 512, 256),  \* ATmega48A
    Dev(<<65,84,109,101,103,97,52,56,80>>, 2048, 256, 512, 256),  \* ATmega48P
    Dev(<<65,84,109,101,103,97,52,56,80,65>>, 2048, 256, 512, 256),  \* ATmega48PA
    Dev(<<65,84,109,101,103,97,56,56>>, 4096, 256, 1024, 512),  \* ATmega88
    Dev(<<65,84,109,101,103,97,56,56,65>>, 4096, 256, 1024, 512),  \* ATmega88A
    Dev(<<65,84,109,101,103,97,56,56,80>>, 4096, 256, 1024, 512),  \* ATmega88P
    Dev(<<65,84,109,101,103,97,56,56,80,65>>, 4096, 256, 1024, 512),  \* ATmega88PA
    Dev(<<65,84,109,101,103,97,49,54,56>>, 8192, 256, 1024, 512),  \* ATmega168
    Dev(<<65,84,109,101,103,97,49,54,56,65>>, 8192, 256, 1024, 512),  \* ATmega168A
    Dev(<<65,84,109,101,103,97,49,54,56,80>>, 8192, 256, 1024, 512),  \* ATmega168P
    Dev(<<65,84,109,101,103,97,49,54,56,80,65>>, 8192, 256, 1024, 512),  \* ATmega168PA
    Dev(<<65,84,109,101,103,97,49,54,57>>, 8192, 256, 1024, 512),  \* ATmega169
    Dev(<<65,84,109,101,103,97,49,54,57,65>>, 8192, 256, 1024, 512),  \* ATmega169A
    Dev(<<65,84,109,101,103,97,49,54,57,80>>, 8192, 256, 1024, 512),  \* ATmega169P
    Dev(<<65,84,109,101,103,97,49,54,57,80,65>>, 8192, 256, 1024, 512),  \* ATmega169PA
    Dev(<<65,84,109,101,103,97,51,50,56>>, 16384, 256, 2048, 1024),  \* ATmega328
    Dev(<<65,84,109,101,103,97,51,50,56,80>>, 16384, 256, 2048, 1024),  \* ATmega328P
    Dev(<<65,84,109,101,103,97,51,50,56,80,66>>, 16384, 256, 2048, 1024),  \* ATmega328PB
    Dev(<<65,84,109,101,103,97,51,50,85,52>>, 16384, 256, 2560, 1024),  \* ATmega32U4
    Dev(<<65,84,109,101,103,97,56,53,49,53>>, 8192, 96, 512, 512),  \* ATmega8515
    Dev(<<65,84,109,101,103,97,49,50,56,48>>, 65536, 512, 8192, 4096),  \* ATmega1280
    Dev(<<65,84,109,101,103,97,49,54,52,80>>, 8192, 256, 1024, 512),  \* ATmega164P
    Dev(<<65,84,109,101,103,97,49,54,52,80,65>>, 8192, 256, 1024, 512),  \* ATmega164PA
    Dev(<<65,84,109,101,103,97,51,50,52,65>>, 16384, 256, 2048, 1024),  \* ATmega324A
    Dev(<<65,84,109,101,103,97,51,50,52,80>>, 16384, 256, 2048, 1024),  \* ATmega324P
    Dev(<<65,84,109,101,103,97,51,50,52,80,65>>, 16384, 256, 2048, 1024),  \* ATmega324PA
    Dev(<<65,84,109,101,103,97,54,52,52>>, 32768, 256, 4096, 2048),  \* ATmega644
    Dev(<<65,84,109,101,103,97,54,52,52,80>>, 32768, 256, 4096, 2096),  \* ATmega644P
    Dev(<<65,84,109,101,103,97,54,52,52,80,65>>, 32768, 256, 4096, 2096),  \* ATmega644PA
    Dev(<<65,84,109,101,103,97,49,50,56,52,80>>, 65536, 256, 16384, 4096),  \* ATmega1284P
    Dev(<<65,84,109,101,103,97,49,50,56,52,80,65>>, 65536, 256, 16384, 4096),  \* ATmega1284PA
    Dev(<<65,84,109,101,103,97,50,53,54,48>>, 131072, 512, 8192, 4096),  \* ATmega2560
    Dev(<<65,84,109,101,103,97,50,53,54,49>>, 131072, 512, 8192, 4096),  \* ATmega2561
    Dev(<<65,84,109,101,103,97,52,56,48,57>>, 24000, 10240, 6000, 256),  \* ATmega4809
    Dev(<<65,84,57,52,75>>, 8192, 96, 16384, 0),  \* AT94K
    Dev(NULL, 0, 0, 0, 0)  \* NULL
  >>

\* device_list[i], i a C index
At(dl, i) == dl[i + 1]

\* index of the end-of-table terminator = number of entries before it
RECURSIVE TermFrom(_, _)
TermFrom(dl, i) == IF At(dl, i).name = NULL THEN i ELSE TermFrom(dl, i + 1)
Terminator(dl) == TermFrom(dl, 1)

\* indices of the named (non-sentinel) entries
Named(dl) == 1 .. (Terminator(dl) - 1)

\* ----------------------------------------------------------------- strings
Min(a, b) == IF a < b THEN a ELSE b
Max(a, b) == IF a > b THEN a ELSE b

tolower(c) == IF c >= 65 /\ c <= 90 THEN c + 32 ELSE c
toupper(c) == IF c >= 97 /\ c <= 122 THEN c - 32 ELSE c
lowercase(s) == [k \in 1 .. Len(s) |-> tolower(s[k])]
uppercase(s) == [k \in 1 .. Len(s) |-> toupper(s[k])]

\* case-insensitive strcmp: 0 when the two strings have the same characters
\* once folded, nonzero otherwise (only the test against 0 is used)
nocase_strcmp(s, t) ==
    IF Len(s) = Len(t) /\ \A k \in 1 .. Len(s) : tolower(s[k]) = tolower(t[k])
    THEN 0 ELSE 1

\* char temp[MAX_DEV_NAME+1] is a record: str, the string it holds, and
\* ext, the number of bytes from temp[0] on that have been written
\* (ext > MAX_DEV_NAME+1 is a write past the end of the array).
TEMP_SIZE == MAX_DEV_NAME + 1

\* strncpy(temp, src, n): min(n, strlen(src)) characters, then zero bytes up
\* to n bytes in all (no terminator when strlen(src) >= n)
strncpy(src, n) ==
    [str |-> SubSeq(src, 1, Min(Len(src), n)), ext |-> n]

\* strncat(temp, src, n): at the terminator of temp, min(n, strlen(src))
\* characters of src and then a terminator; n bounds what is taken from
\* src, not what temp holds
strncat(buf, src, n) ==
    [str |-> buf.str \o SubSeq(src, 1, Min(Len(src), n)),
     ext |-> Max(buf.ext, Len(buf.str) + Min(Len(src), n) + 1)]

\* the three calls that build the symbol of a device name in temp
BuildPrefix == strncpy(DEV_PREFIX, MAX_DEV_NAME)
\* BuildName taking at most 8 characters of the name
BuildName_Short(buf, name) == strncat(buf, name, 8)
BuildName(buf, name) == strncat(buf, name, MAX_DEV_NAME)
BuildSuffix(buf) == strncat(buf, DEV_SUFFIX, MAX_DEV_NAME)

\* the name predef_dev wraps for entry i
EntryName(dl, i) == IF i = 0 THEN DEF_DEV_NAME ELSE At(dl, i).name

\* temp after the three calls for entry i
DevTemp(dl, i) == BuildSuffix(BuildName(BuildPrefix, EntryName(dl, i)))
DevSymbol(dl, i) == DevTemp(dl, i).str

\* ------------------------------------------------------------ symbol table
\* The constants and the variables of a session are two functions from
\* symbol names to values.

\* unconditional define or overwrite of a variable
def_var(vars_, name, value) ==
    [n \in (DOMAIN vars_) \cup {name} |-> IF n = name THEN value ELSE vars_[n]]

\* is a constant of that exact name defined
test_constant(consts, name) == name \in DOMAIN consts

\* value of the constant of that name, if there is one
get_constant(consts, name) ==
    IF name \in DOMAIN consts
    THEN [found |-> True, value |-> consts[name]]
    ELSE [found |-> False, value |-> 0]

\* define a constant; fails, defining nothing, when a constant or a variable
\* of that name exists
def_const(consts, vars_, name, value) ==
    IF name \in DOMAIN consts \/ name \in DOMAIN vars_
    THEN [ok |-> False, constants |-> consts]
    ELSE [ok |-> True,
          constants |-> [n \in (DOMAIN consts) \cup {name} |->
                            IF n = name THEN value ELSE consts[n]]]

\* ------------------------------------------------------------------ device.c
\* def_dev with the RAM and EEPROM sizes exchanged
def_dev_SizesExchanged(vars_, dl, ld) ==
    def_var(def_var(def_var(def_var(vars_, DEV_VAR, ld),
                            FLASH_VAR, At(dl, ld).flash_size),
                    EEPROM_VAR, At(dl, ld).ram_size),
            RAM_VAR, At(dl, ld).eeprom_size)

\* def_dev: the four variables of the device in LastDevice
def_dev(vars_, dl, ld) ==
    def_var(def_var(def_var(def_var(vars_, DEV_VAR, ld),
                            FLASH_VAR, At(dl, ld).flash_size),
                    EEPROM_VAR, At(dl, ld).eeprom_size),
            RAM_VAR, At(dl, ld).ram_size)

\* ScanDevices comparing with strcmp (case-sensitive)
RECURSIVE ScanDevices_CaseSensitive(_, _, _)
ScanDevices_CaseSensitive(dl, name, i) ==
    IF At(dl, i).name = NULL THEN NODEV
    ELSE IF name = At(dl, i).name THEN i
    ELSE ScanDevices_CaseSensitive(dl, name, i + 1)

\* the while loop of get_device from index i on: the index of the first
\* entry whose name matches, NODEV when the terminator is reached
RECURSIVE ScanDevices(_, _, _)
ScanDevices(dl, name, i) ==
    IF At(dl, i).name = NULL THEN NODEV
    ELSE IF nocase_strcmp(name, At(dl, i).name) = 0 THEN i
    ELSE ScanDevices(dl, name, i + 1)

\* get_device that sets LastDevice to 0 only when no name is given
get_device_ResetOnlyForNull(dl, ld0, name) ==
    IF name = NULL
    THEN [LastDevice |-> 0, result |-> 0]
    ELSE LET m == ScanDevices(dl, name, 1)
         IN  [LastDevice |-> IF m = NODEV THEN ld0 ELSE m, result |-> m]

\* get_device that sets LastDevice to 0 only after the test for no name
get_device_ResetAfterNullTest(dl, ld0, name) ==
    IF name = NULL
    THEN [LastDevice |-> ld0, result |-> 0]
    ELSE LET m == ScanDevices(dl, name, 1)
         IN  [LastDevice |-> IF m = NODEV THEN 0 ELSE m, result |-> m]

\* get_device without its def_dev calls: the new LastDevice and the result,
\* ld0 being LastDevice at the call (overwritten with 0 before anything else)
get_device(dl, ld0, name) ==
    IF name = NULL
    THEN [LastDevice |-> 0, result |-> 0]
    ELSE LET m == ScanDevices(dl, name, 1)
         IN  [LastDevice |-> IF m = NODEV THEN 0 ELSE m, result |-> m]

\* one outcome of predef_dev: what it returned, which message it printed
\* (err), the entry it returned at (idx), the constants it leaves, and the
\* entries whose symbol it looked up (reads) or tried to define (writes)
Outcome(ret, err, idx, consts, reads, writes) ==
    [ret |-> ret, err |-> err, idx |-> idx, constants |-> consts,
     reads |-> reads, writes |-> writes]

\* Pass1Body without the test_constant probe
Pass1Body_NoTest(dl, consts, vars_, i, reads, writes) ==
    LET temp == DevSymbol(dl, i)
        d == def_const(consts, vars_, temp, i)
    IN  IF d.ok = False
        THEN Outcome(False, "DefConst", i, d.constants, reads, writes \cup {i})
        ELSE Outcome(True, "go", i, d.constants, reads, writes \cup {i})

\* Pass1Body defining the constant with the value i+1
Pass1Body_OffByOne(dl, consts, vars_, i, reads, writes) ==
    LET temp == DevSymbol(dl, i)
        d == def_const(consts, vars_, temp, i + 1)
    IN  IF test_constant(consts, temp)
        THEN Outcome(False, "Duplicate", i, consts, reads \cup {i}, writes)
        ELSE IF d.ok = False
        THEN Outcome(False, "DefConst", i, d.constants, reads \cup {i}, writes \cup {i})
        ELSE Outcome(True, "go", i, d.constants, reads \cup {i}, writes \cup {i})

\* Pass1Body going on to the next entry when def_const returns False
Pass1Body_IgnoreDefConst(dl, consts, vars_, i, reads, writes) ==
    LET temp == DevSymbol(dl, i)
        d == def_const(consts, vars_, temp, i)
    IN  IF test_constant(consts, temp)
        THEN Outcome(False, "Duplicate", i, consts, reads \cup {i}, writes)
        ELSE Outcome(True, "go", i, d.constants, reads \cup {i}, writes \cup {i})

\* the body of the for loop of predef_dev in pass 1 for entry i:
\* "go" when the loop goes on to i+1
Pass1Body(dl, consts, vars_, i, reads, writes) ==
    LET temp == DevSymbol(dl, i)
        d == def_const(consts, vars_, temp, i)
    IN  IF test_constant(consts, temp)
        THEN Outcome(False, "Duplicate", i, consts, reads \cup {i}, writes)
        ELSE IF d.ok = False
        THEN Outcome(False, "DefConst", i, d.constants, reads \cup {i}, writes \cup {i})
        ELSE Outcome(True, "go", i, d.constants, reads \cup {i}, writes \cup {i})

\* Pass2Body without the test for a missing constant
Pass2Body_NoMissing(dl, consts, vars_, i, reads, writes) ==
    LET temp == DevSymbol(dl, i)
        g == get_constant(consts, temp)
    IN  IF i # g.value
        THEN Outcome(False, "Mismatch", i, consts, reads \cup {i}, writes)
        ELSE Outcome(True, "go", i, consts, reads \cup {i}, writes)

\* Pass2Body without the comparison of the value with the index
Pass2Body_NoCompare(dl, consts, vars_, i, reads, writes) ==
    LET temp == DevSymbol(dl, i)
        g == get_constant(consts, temp)
    IN  IF g.found = False
        THEN Outcome(False, "Missing", i, consts, reads \cup {i}, writes)
        ELSE Outcome(True, "go", i, consts, reads \cup {i}, writes)

\* the body of the for loop of predef_dev in pass 2 for entry i
Pass2Body(dl, consts, vars_, i, reads, writes) ==
    LET temp == DevSymbol(dl, i)
        g == get_constant(consts, temp)
    IN  IF g.found = False
        THEN Outcome(False, "Missing", i, consts, reads \cup {i}, writes)
        ELSE IF i # g.value
        THEN Outcome(False, "Mismatch", i, consts, reads \cup {i}, writes)
        ELSE Outcome(True, "go", i, consts, reads \cup {i}, writes)

\* the body of the for loop for entry i, o being the outcome of the entries
\* before it
PredefBody(dl, pass_, vars_, i, o) ==
    IF pass_ = PASS_1
    THEN Pass1Body(dl, o.constants, vars_, i, o.reads, o.writes)
    ELSE Pass2Body(dl, o.constants, vars_, i, o.reads, o.writes)

\* PredefLoop that notes the first failure and goes on with the next entry
RECURSIVE PredefLoop_NoStop(_, _, _, _, _, _)
PredefLoop_NoStop(dl, pass_, vars_, lo, hi, o) ==
    IF o.ret = False /\ lo > hi THEN o
    ELSE IF lo = hi
    THEN LET b == PredefBody(dl, pass_, vars_, lo, o)
         IN  IF o.ret = False
             THEN Outcome(False, o.err, o.idx, b.constants, b.reads, b.writes)
             ELSE b
    ELSE PredefLoop_NoStop(dl, pass_, vars_, ((lo + hi) \div 2) + 1, hi,
                           PredefLoop_NoStop(dl, pass_, vars_, lo, (lo + hi) \div 2, o))

\* the for loop of predef_dev over the entries lo..hi, in increasing order,
\* o being the outcome of the entries before lo: nothing more is done once
\* an entry has made predef_dev return.  (The range is halved, not peeled
\* from the left, only to keep the evaluation shallow.)
RECURSIVE PredefLoop(_, _, _, _, _, _)
PredefLoop(dl, pass_, vars_, lo, hi, o) ==
    IF o.ret = False THEN o
    ELSE IF lo = hi THEN PredefBody(dl, pass_, vars_, lo, o)
    ELSE PredefLoop(dl, pass_, vars_, ((lo + hi) \div 2) + 1, hi,
                    PredefLoop(dl, pass_, vars_, lo, (lo + hi) \div 2, o))

\* predef_dev after its def_dev call: the loop runs from entry 0 to the last
\* entry before the terminator, and True is returned when it ends
predef_dev(dl, pass_, consts, vars_) ==
    LET o == PredefLoop(dl, pass_, vars_, 0, Terminator(dl) - 1,
                        Outcome(True, "go", 0, consts, {}, {}))
    IN  IF o.ret = False THEN o
        ELSE Outcome(True, "none", Terminator(dl), o.constants, o.reads, o.writes)

\* ------------------------------------------------------------------- state
VARIABLES
    device_list,    \* the registry
    LastDevice,     \* static int LastDevice
    pass,           \* pi->pass
    pi_constants,   \* the constants of the session
    pi_variables,   \* the variables of the session
    lookup,         \* the last get_device call: its argument, its result and
                    \* LastDevice when it was called
    runs,           \* the predef_dev calls so far, one Outcome summary each
    bname,          \* symbol builder: the device name being wrapped
    temp,           \* symbol builder: char temp[MAX_DEV_NAME+1]
    bpc             \* symbol builder: the next call to make

vars == <<device_list, LastDevice, pass, pi_constants, pi_variables, lookup,
          runs, bname, temp, bpc>>

session == <<device_list, LastDevice, pass, pi_constants, pi_variables, lookup, runs>>
builder == <<bname, temp, bpc>>

\* the empty symbol table
NoSymbols == [n \in {} |-> 0]
OneSymbol(name, value) == [n \in {name} |-> value]

\* a user symbol that no device symbol equals: "X"
USER_SYM == <<88>>

\* names a user symbol defined before pass 1 may have
UserNames == {DevSymbol(DeviceTable, k) : k \in 0 .. MaxUserIdx} \cup {USER_SYM}

\* get_device arguments: no name, the name of the first named entry in upper
\* case and of the last one in lower case, and two names that match no entry
\* (a proper prefix of a name, a name with a character appended)
LookupNames ==
    {NULL,
     SubSeq(At(DeviceTable, 1).name, 1, Len(At(DeviceTable, 1).name) - 1),
     At(DeviceTable, 1).name \o <<120>>,
     uppercase(At(DeviceTable, 1).name),
     lowercase(At(DeviceTable, Terminator(DeviceTable) - 1).name)}

\* a synthetic device name of n characters: "ABC...ZABC..."
LongName(n) == [k \in 1 .. n |-> 65 + ((k - 1) % 26)]

\* names fed to the symbol builder: those of the table, and synthetic ones
BuildNames ==
    {EntryName(DeviceTable, k) : k \in 0 .. (Terminator(DeviceTable) - 1)}
    \cup {LongName(n) : n \in 0 .. MaxNameLen}

InitSession ==
    /\ device_list = DeviceTable
    /\ LastDevice = 0
    /\ pass = PASS_1
    /\ lookup = [called |-> FALSE, name |-> NULL, result |-> NODEV, before |-> 0]
    /\ runs = << >>

InitBuilderIdle ==
    /\ bname = NULL
    /\ temp = [str |-> << >>, ext |-> 0]
    /\ bpc = "idle"

\* a session before the first predef_dev: no symbol, or one user symbol
Init ==
    /\ InitSession
    /\ InitBuilderIdle
    /\ \/ pi_constants = NoSymbols /\ pi_variables = NoSymbols
       \/ \E n \in UserNames, v \in 0 .. MaxUserVal :
            \/ pi_constants = OneSymbol(n, v) /\ pi_variables = NoSymbols
            \/ pi_constants = NoSymbols /\ pi_variables = OneSymbol(n, v)

\* ----------------------------------------------------------------- actions
\* struct device *get_device(pi, name)
GetDevice(name) ==
    LET g == get_device(device_list, LastDevice, name)
    IN  /\ LastDevice' = g.LastDevice
        /\ pi_variables' = def_dev(pi_variables, device_list, g.LastDevice)
        /\ lookup' = [called |-> TRUE, name |-> name, result |-> g.result,
                      before |-> LastDevice]
        /\ UNCHANGED <<device_list, pass, pi_constants, runs, builder>>

\* every symbol predef_dev builds from the registry fits in temp
SymbolsFit(dl) ==
    \A i \in 0 .. (Terminator(dl) - 1) : DevTemp(dl, i).ext <= TEMP_SIZE

\* PredefDev setting LastDevice to 0 before it calls def_dev
PredefDev_ResetsSelection ==
    /\ Len(runs) < MaxRuns
    /\ SymbolsFit(device_list)
    /\ LET v == def_dev(pi_variables, device_list, 0)
           o == predef_dev(device_list, pass, pi_constants, v)
       IN  /\ pi_variables' = v
           /\ pi_constants' = o.constants
           /\ runs' = Append(runs, [pass |-> pass, ret |-> o.ret, err |-> o.err,
                                    idx |-> o.idx, reads |-> o.reads,
                                    writes |-> o.writes])
    /\ LastDevice' = 0
    /\ UNCHANGED <<device_list, pass, lookup, builder>>

\* int predef_dev(pi); a symbol that does not fit in temp is a write past
\* the end of an array, after which the behaviour is undefined: such a
\* call has no modelled outcome
PredefDev ==
    /\ Len(runs) < MaxRuns
    /\ SymbolsFit(device_list)
    /\ LET v == def_dev(pi_variables, device_list, LastDevice)
           o == predef_dev(device_list, pass, pi_constants, v)
       IN  /\ pi_variables' = v
           /\ pi_constants' = o.constants
           /\ runs' = Append(runs, [pass |-> pass, ret |-> o.ret, err |-> o.err,
                                    idx |-> o.idx, reads |-> o.reads,
                                    writes |-> o.writes])
    /\ UNCHANGED <<device_list, LastDevice, pass, lookup, builder>>

\* the pass driver goes from pass 1 to pass 2
NextPass ==
    /\ pass = PASS_1
    /\ pass' = PASS_2
    /\ UNCHANGED <<device_list, LastDevice, pi_constants, pi_variables, lookup,
                   runs, builder>>

Lookup == \E name \in LookupNames : GetDevice(name)

Next == Lookup \/ PredefDev \/ NextPass

Spec == Init /\ [][Next]_vars

\* --------------------------------------------- lookups of every table name
\* the three spellings of a name
Spellings(name) == {name, uppercase(name), lowercase(name)}

InitEmpty ==
    /\ InitSession
    /\ InitBuilderIdle
    /\ pi_constants = NoSymbols
    /\ pi_variables = NoSymbols

\* the first get_device call of a session, with any spelling of any name of
\* the table
LookupAny ==
    /\ lookup.called = FALSE
    /\ \E i \in Named(device_list) :
         \E name \in Spellings(At(device_list, i).name) : GetDevice(name)

NextLookup == LookupAny \/ Lookup

SpecLookup == InitEmpty /\ [][NextLookup]_vars

\* ----------------------------------------- a registry changed between passes
Swapped(dl, i, j) ==
    [k \in 1 .. Len(dl) |->
        IF k = i + 1 THEN dl[j + 1] ELSE IF k = j + 1 THEN dl[i + 1] ELSE dl[k]]

\* after a pass 1 that succeeded and before pass 2, two named entries of the
\* registry change places (once)
Swap ==
    /\ pass = PASS_1
    /\ device_list = DeviceTable
    /\ \E n \in 1 .. Len(runs) : runs[n].pass = PASS_1 /\ runs[n].ret = True
    /\ \E i, j \in Named(device_list) :
         /\ i < j
         /\ device_list' = Swapped(device_list, i, j)
    /\ UNCHANGED <<LastDevice, pass, pi_constants, pi_variables, lookup, runs,
                   builder>>

NextSwap == PredefDev \/ NextPass \/ Swap

SpecSwap == InitEmpty /\ [][NextSwap]_vars

\* ------------------------------------------------ the symbol builder alone
\* predef_dev's three string calls, one at a time, on any name
InitBuild ==
    /\ InitSession
    /\ pi_constants = NoSymbols
    /\ pi_variables = NoSymbols
    /\ bname \in BuildNames
    /\ temp = [str |-> << >>, ext |-> 0]
    /\ bpc = "strncpy"

\* where the builder goes after a call: nowhere once a byte was written past
\* the end of temp (undefined behaviour)
AfterWrite(buf, nextpc) == IF buf.ext > TEMP_SIZE THEN "undefined" ELSE nextpc

\* strncpy(temp,DEV_PREFIX,MAX_DEV_NAME)
BuildStrncpy ==
    /\ bpc = "strncpy"
    /\ temp' = BuildPrefix
    /\ bpc' = AfterWrite(temp', "strncat_name")
    /\ UNCHANGED <<session, bname>>

\* strncat(temp,name,MAX_DEV_NAME)
BuildStrncatName ==
    /\ bpc = "strncat_name"
    /\ temp' = BuildName(temp, bname)
    /\ bpc' = AfterWrite(temp', "strncat_suffix")
    /\ UNCHANGED <<session, bname>>

\* strncat(temp,DEV_SUFFIX,MAX_DEV_NAME)
BuildStrncatSuffix ==
    /\ bpc = "strncat_suffix"
    /\ temp' = BuildSuffix(temp)
    /\ bpc' = AfterWrite(temp', "done")
    /\ UNCHANGED <<session, bname>>

NextBuild == BuildStrncpy \/ BuildStrncatName \/ BuildStrncatSuffix

SpecBuild == InitBuild /\ [][NextBuild]_vars

\* ------------------------------------------------------------------ claims
\* the indices predef_dev goes through: the sentinel and the named entries
Entries(dl) == 0 .. (Terminator(dl) - 1)

\* run n of predef_dev was a pass-1 run that returned True
Pass1Ok(n) == runs[n].pass = PASS_1 /\ runs[n].ret = True

\* every entry of the registry has its constant, with its index as value
AllDefined ==
    \A i \in Entries(device_list) :
        /\ DevSymbol(device_list, i) \in DOMAIN pi_constants
        /\ pi_constants[DevSymbol(device_list, i)] = i

\* C1: with the registry as initialized, a pass-2 run of predef_dev that
\* comes after a pass-1 run that returned True returns True as well: it
\* reports neither a missing constant nor a changed value, whatever
\* get_device calls were made before, between or after the runs.
C1_Pass2AfterPass1 ==
    \A n \in 1 .. Len(runs) :
        (/\ runs[n].pass = PASS_2
         /\ device_list = DeviceTable
         /\ \E m \in 1 .. (n - 1) : Pass1Ok(m))
        => (runs[n].ret = True /\ runs[n].err = "none")

C1_Witness ==
    /\ Len(runs) = 2
    /\ Pass1Ok(1)
    /\ runs[2].pass = PASS_2 /\ runs[2].ret = True
    /\ lookup.called /\ lookup.result > 0

\* C2: a pass-1 run of predef_dev right after a pass-1 run that returned
\* True returns False with the duplicate-symbol message at entry 0 (the
\* DEFAULT symbol), defines nothing, and every entry still has its constant
\* with its index as value.
C2_SecondPass1Fails ==
    \A n \in 1 .. (Len(runs) - 1) :
        (Pass1Ok(n) /\ runs[n + 1].pass = PASS_1)
        => (/\ runs[n + 1].ret = False
            /\ runs[n + 1].err = "Duplicate"
            /\ runs[n + 1].idx = 0
            /\ runs[n + 1].reads = {0}
            /\ runs[n + 1].writes = {}
            /\ AllDefined)

C2_Witness ==
    /\ Len(runs) = 2
    /\ Pass1Ok(1)
    /\ runs[2].pass = PASS_1 /\ runs[2].ret = False
    /\ AllDefined

\* C3: when two named entries of the registry have changed places after a
\* pass-1 run that returned True, every pass-2 run returns False with the
\* changed-value message (never True, never the missing-constant message).
C3_SwapIsMismatch ==
    \A n \in 1 .. Len(runs) :
        (runs[n].pass = PASS_2 /\ device_list # DeviceTable)
        => (runs[n].ret = False /\ runs[n].err = "Mismatch")

C3_Witness ==
    /\ device_list # DeviceTable
    /\ Len(runs) = 2
    /\ Pass1Ok(1)
    /\ runs[2].pass = PASS_2 /\ runs[2].err = "Mismatch"


\* the four variables are defined with the values of entry i
DeviceVars(i) ==
    /\ {DEV_VAR, FLASH_VAR, EEPROM_VAR, RAM_VAR} \subseteq DOMAIN pi_variables
    /\ pi_variables[DEV_VAR] = i
    /\ pi_variables[FLASH_VAR] = At(device_list, i).flash_size
    /\ pi_variables[EEPROM_VAR] = At(device_list, i).eeprom_size
    /\ pi_variables[RAM_VAR] = At(device_list, i).ram_size

\* name is a string that matches the name of no named entry
NoMatch(name) ==
    /\ name # NULL
    /\ \A i \in Named(device_list) : nocase_strcmp(name, At(device_list, i).name) # 0

\* C4: get_device called with the name of a named entry, as it is in the
\* table, in upper case or in lower case, returns that entry (its own index,
\* not that of an entry met earlier in the scan) and selects it.
C4_LookupReturnsOwnEntry ==
    lookup.called =>
        \A i \in Named(device_list) :
            lookup.name \in Spellings(At(device_list, i).name)
            => (lookup.result = i /\ LastDevice = i)

\* ATtiny13A (entry 8), whose name extends that of ATtiny13 (entry 7), asked
\* for in lower case
C4_Witness ==
    /\ lookup.called
    /\ lookup.name = lowercase(At(device_list, 8).name)
    /\ lookup.name # At(device_list, 8).name
    /\ lookup.result = 8

\* C5: after get_device was called with a name that matches no named entry,
\* it has returned NULL, LastDevice is 0 and the four variables are defined
\* with the values of entry 0, whatever LastDevice was at the call.
C5_NoMatchSelectsSentinel ==
    (lookup.called /\ NoMatch(lookup.name))
    => (lookup.result = NODEV /\ LastDevice = 0 /\ DeviceVars(0))

C5_Witness ==
    /\ lookup.called /\ NoMatch(lookup.name)
    /\ lookup.before > 0
    /\ lookup.result = NODEV /\ LastDevice = 0 /\ DeviceVars(0)

\* C6: after get_device was called with no name (NULL), it has returned
\* entry 0, LastDevice is 0 and the four variables are defined with the
\* values of entry 0, also when LastDevice was a named entry at the call.
C6_NullSelectsSentinel ==
    (lookup.called /\ lookup.name = NULL)
    => (lookup.result = 0 /\ LastDevice = 0 /\ DeviceVars(0))

C6_Witness ==
    /\ lookup.called /\ lookup.name = NULL
    /\ lookup.before > 0
    /\ lookup.result = 0 /\ LastDevice = 0 /\ DeviceVars(0)

\* C7: once get_device has been called, LastDevice is 0 or the index of a
\* named entry whose name matches the argument (never the terminator), the
\* entry returned on a match is the one selected, and the four variables hold
\* LastDevice and the flash, EEPROM and RAM sizes of entry LastDevice.
C7_VariablesFollowSelection ==
    lookup.called =>
        /\ LastDevice \in {0} \cup Named(device_list)
        /\ LastDevice # Terminator(device_list)
        /\ LastDevice # 0 =>
              /\ lookup.name # NULL
              /\ nocase_strcmp(lookup.name, At(device_list, LastDevice).name) = 0
        /\ (lookup.name # NULL /\ lookup.result # NODEV) => LastDevice = lookup.result
        /\ DeviceVars(LastDevice)

\* AT94K, the last named entry, selected: flash 8192 words, no EEPROM
C7_Witness ==
    /\ lookup.called
    /\ lookup.result = Terminator(device_list) - 1
    /\ LastDevice = lookup.result
    /\ pi_variables[DEV_VAR] = LastDevice
    /\ pi_variables[FLASH_VAR] = 8192
    /\ pi_variables[EEPROM_VAR] = 0
    /\ pi_variables[RAM_VAR] = 16384

\* the step is a call of predef_dev; its outcome is LastRun'
IsRun == Len(runs') = Len(runs) + 1
LastRun == runs[Len(runs)]

\* the constant of entry i is as it was before the step
SameConstant(i) ==
    LET sym == DevSymbol(device_list, i)
    IN  IF sym \in DOMAIN pi_constants
        THEN sym \in DOMAIN pi_constants' /\ pi_constants'[sym] = pi_constants[sym]
        ELSE sym \notin DOMAIN pi_constants'

\* C8: a call of predef_dev that returns False at entry k, in either pass,
\* has looked up or defined the symbol of no entry after k, and the
\* constants of the entries after k are as they were before the call (none
\* is defined in pass 1).
C8_FailureStopsTheLoop ==
    [][(IsRun /\ LastRun'.ret = False) =>
          /\ \A i \in LastRun'.reads \cup LastRun'.writes : i <= LastRun'.idx
          /\ \A i \in Entries(device_list) : i > LastRun'.idx => SameConstant(i)
      ]_vars

\* pass 1 stopped at entry 2 (a user constant had its name): entry 1 has its
\* constant, entry 3 has none
C8_Witness ==
    /\ Len(runs) = 1
    /\ runs[1].pass = PASS_1 /\ runs[1].ret = False /\ runs[1].idx = 2
    /\ DevSymbol(device_list, 1) \in DOMAIN pi_constants
    /\ DevSymbol(device_list, 3) \notin DOMAIN pi_constants

Inconsistent(i) ==
    \/ DevSymbol(device_list, i) \notin DOMAIN pi_constants
    \/ pi_constants[DevSymbol(device_list, i)] # i

\* C10: a pass-2 call of predef_dev goes through the entries in order and
\* its outcome is that of the first inconsistent entry k: False with the
\* missing-constant message when entry k has no constant, False with the
\* changed-value message when its constant is not k; it returns True exactly
\* when no entry is inconsistent; and it leaves the constants as they were.
C10_Pass2Outcome ==
    [][(IsRun /\ pass = PASS_2) =>
          /\ pi_constants' = pi_constants
          /\ LastRun'.writes = {}
          /\ LastRun'.ret = True <=> \A i \in Entries(device_list) : ~Inconsistent(i)
          /\ LastRun'.ret = True => LastRun'.reads = Entries(device_list)
          /\ LastRun'.ret = False =>
                /\ LastRun'.idx \in Entries(device_list)
                /\ Inconsistent(LastRun'.idx)
                /\ \A j \in 0 .. (LastRun'.idx - 1) : ~Inconsistent(j)
                /\ LastRun'.reads = 0 .. LastRun'.idx
                /\ LastRun'.err =
                      IF DevSymbol(device_list, LastRun'.idx) \notin DOMAIN pi_constants
                      THEN "Missing" ELSE "Mismatch"
      ]_vars

\* pass 2 after a pass 1 that stopped at entry 2 on a user constant of value
\* 1: entries 0 and 1 are consistent, entry 2 has the value 1
C10_Witness ==
    /\ Len(runs) = 2
    /\ runs[1].pass = PASS_1 /\ runs[1].idx = 2
    /\ runs[2].pass = PASS_2 /\ runs[2].ret = False
    /\ runs[2].err = "Mismatch" /\ runs[2].idx = 2
    /\ pi_constants[DevSymbol(device_list, 2)] = 1

\* no symbol predef_dev builds from the registry is the name of a constant
\* or of a variable
NoCollision ==
    \A i \in Entries(device_list) :
        /\ DevSymbol(device_list, i) \notin DOMAIN pi_constants
        /\ DevSymbol(device_list, i) \notin DOMAIN pi_variables

\* the symbols built from the entries of the registry are pairwise distinct
DistinctSymbols ==
    Cardinality({DevSymbol(device_list, i) : i \in Entries(device_list)})
        = Cardinality(Entries(device_list))

\* after the step the constant of entry i exists and has the value i
IndexDefined(i) ==
    LET sym == DevSymbol(device_list, i)
    IN  sym \in DOMAIN pi_constants' /\ pi_constants'[sym] = i

\* C11: a pass-1 call of predef_dev that returns True leaves, for every
\* entry i (0 under the name DEFAULT, then the named entries), a constant
\* of the symbol built from entry i with the value i; the symbols of the
\* table are pairwise distinct, and the call returns True whenever no
\* symbol of the table was the name of a constant or a variable before it.
C11_Pass1DefinesEveryIndex ==
    [][(IsRun /\ pass = PASS_1) =>
          /\ DistinctSymbols
          /\ LastRun'.ret = True =>
                /\ \A i \in Entries(device_list) : IndexDefined(i)
                /\ LastRun'.writes = Entries(device_list)
          /\ NoCollision => LastRun'.ret = True
      ]_vars

\* pass 1 returned True on a table that held one user constant of another
\* name: the first, the 8th (ATtiny13A) and the last entry have their index
C11_Witness ==
    /\ Len(runs) = 1
    /\ Pass1Ok(1)
    /\ USER_SYM \in DOMAIN pi_constants
    /\ pi_constants[DevSymbol(device_list, 0)] = 0
    /\ pi_constants[DevSymbol(device_list, 8)] = 8
    /\ pi_constants[DevSymbol(device_list, Terminator(device_list) - 1)]
          = Terminator(device_list) - 1

\* the symbol of entry i is the name of a constant or of a variable
Collides(i) ==
    \/ DevSymbol(device_list, i) \in DOMAIN pi_constants
    \/ DevSymbol(device_list, i) \in DOMAIN pi_variables

\* the variable of the name of entry i's symbol is as it was before the step
SameVariable(i) ==
    LET sym == DevSymbol(device_list, i)
    IN  IF sym \in DOMAIN pi_variables
        THEN sym \in DOMAIN pi_variables' /\ pi_variables'[sym] = pi_variables[sym]
        ELSE sym \notin DOMAIN pi_variables'

\* C12: a pass-1 call of predef_dev on a table where the symbol of some
\* entry is already the name of a constant or of a variable returns False
\* at the first such entry k (with the defined-twice message for a
\* constant, from def_const for a variable), and the constant and the
\* variable of that name are as they were: none is defined or overwritten.
C12_CollisionFailsAtEntry ==
    [][(IsRun /\ pass = PASS_1 /\ ~NoCollision) =>
          LET k == CHOOSE i \in Entries(device_list) :
                       /\ Collides(i)
                       /\ \A j \in 0 .. (i - 1) : ~Collides(j)
          IN  /\ LastRun'.ret = False
              /\ LastRun'.idx = k
              /\ LastRun'.err =
                    IF DevSymbol(device_list, k) \in DOMAIN pi_constants
                    THEN "Duplicate" ELSE "DefConst"
              /\ SameConstant(k)
              /\ SameVariable(k)
      ]_vars

\* pass 1 returned False at entry 2, whose symbol was the name of a user
\* variable: the variable has its value and there is no constant of the name
C12_Witness ==
    /\ Len(runs) = 1
    /\ runs[1].pass = PASS_1 /\ runs[1].ret = False
    /\ runs[1].err = "DefConst" /\ runs[1].idx = 2
    /\ DevSymbol(device_list, 2) \in DOMAIN pi_variables
    /\ pi_variables[DevSymbol(device_list, 2)] = 1
    /\ DevSymbol(device_list, 2) \notin DOMAIN pi_constants
    /\ DevSymbol(device_list, 1) \in DOMAIN pi_constants

\* after the step the four variables hold i and the sizes of entry i, and
\* every other variable is as it was
DeviceVarsDefined(i) ==
    /\ DOMAIN pi_variables' =
          DOMAIN pi_variables \cup {DEV_VAR, FLASH_VAR, EEPROM_VAR, RAM_VAR}
    /\ pi_variables'[DEV_VAR] = i
    /\ pi_variables'[FLASH_VAR] = At(device_list, i).flash_size
    /\ pi_variables'[EEPROM_VAR] = At(device_list, i).eeprom_size
    /\ pi_variables'[RAM_VAR] = At(device_list, i).ram_size
    /\ \A n \in DOMAIN pi_variables \ {DEV_VAR, FLASH_VAR, EEPROM_VAR, RAM_VAR} :
          pi_variables'[n] = pi_variables[n]

\* C13: a call of predef_dev, in either pass and whatever it returns, leaves
\* LastDevice as it was and defines the four variables from the entry
\* LastDevice selects, which is the one the last get_device call selected
\* (entry k after a lookup that matched k, not the sentinel); LastDevice
\* changes only in a step that is a get_device call.
C13_PredefKeepsSelection ==
    [][/\ IsRun =>
             /\ LastDevice' = LastDevice
             /\ DeviceVarsDefined(LastDevice)
             /\ lookup.called =>
                   LastDevice = IF lookup.result = NODEV THEN 0 ELSE lookup.result
       /\ LastDevice' # LastDevice =>
             /\ runs' = runs /\ pass' = pass
             /\ lookup'.called /\ lookup'.before = LastDevice
      ]_vars

\* after pass 1 and a lookup that matched AT94K, the last named entry, the
\* pass-2 call has been made: AT94K is still selected and the four
\* variables are its index and sizes, not those of the sentinel
C13_Witness ==
    /\ Len(runs) = 2
    /\ runs[1].pass = PASS_1 /\ runs[2].pass = PASS_2 /\ runs[2].ret = True
    /\ lookup.called /\ lookup.result = Terminator(device_list) - 1
    /\ LastDevice = Terminator(device_list) - 1
    /\ LastDevice # 0
    /\ pi_variables[DEV_VAR] = LastDevice
    /\ pi_variables[FLASH_VAR] = 8192
    /\ pi_variables[FLASH_VAR] # At(device_list, 0).flash_size
    /\ pi_variables[RAM_VAR] = 16384

====
